---- MODULE Spec2Model ----
(***************************************************************************)
(* Model of tuzilastvobih.py: the TuzilastvoBIHScraper pagination driver   *)
(* (scrape_all_pages), the page task (fetch_page_content), the article     *)
(* extractor (extract_news_entry), save_to_excel and main.                 *)
(***************************************************************************)
EXTENDS Integers, Sequences, FiniteSets, TLC

VARIABLES
    max_workers,   \* self.max_workers (constructor argument)
    all_entries,   \* self.all_entries
    mainpc,        \* position of the caller: main / scrape_all_pages
    run,           \* number of the current scrape_all_pages call on this object
    discover,      \* what the first archive page request produced in this call
    max_pages,     \* local max_pages of scrape_all_pages
    nextPage,      \* next page number the submit loop will submit
    status,        \* per page number: state of its future in the executor
    listing,       \* per page number: what the listing request of its task produced
    result,        \* per page number: outcome of the future (value or exception)
    yielded,       \* page numbers whose future as_completed has handed to the loop
    raised,        \* an exception is propagating out of the with block
    entries0,      \* all_entries as it was when the current call began
    submitCount,   \* per page number: how many times executor.submit was called
    runCount,      \* per page number: how many times fetch_page_content ran
    saves,         \* number of save_to_excel calls made after the current call
    saved,         \* rows written by the last save_to_excel
    order,         \* page numbers in the order as_completed handed them to the loop
    tpc,           \* position of a safe_translate call: "idle", "ready", "done"
    text,          \* safe_translate: argument text
    chunk_size,    \* safe_translate: argument chunk_size
    fails,         \* which translate_text calls, by their number, raise
    tout,          \* safe_translate: returned text
    tcalls,        \* texts handed to translate_text, in call order
    xpc,           \* position of an extract_news_entry call: "idle", "ready", "done"
    article,       \* extract_news_entry: the listing row and its detail page
    xout           \* extract_news_entry: returned value (<<>> for None)

\* The state of one safe_translate call and of one extract_news_entry call.
unitVars == <<tpc, text, chunk_size, fails, tout, tcalls, xpc, article, xout>>

vars == <<max_workers, all_entries, mainpc, run, discover, max_pages, nextPage,
          status, listing, result, yielded, raised, entries0, submitCount,
          runCount, saves, saved, order, unitVars>>

\* ---------------------------------------------------------------- bounds
MaxPages == 2      \* largest page count the pagination control advertises
MaxRows == 2       \* most listing rows on one archive page
MaxWorkers == 2    \* largest max_workers a scraper is constructed with
MaxRuns == 2       \* most scrape_all_pages calls made on one scraper object
MaxTextLen == 5    \* longest text handed to safe_translate
MaxChunk == 3      \* largest chunk_size handed to safe_translate
MaxFailing == 3    \* translate_text calls numbered above this never raise
MaxFieldLen == 3   \* longest heading, summary or body text of a detail page

\* Page numbers the model observes: one below and one above range(1, max+1).
PageNums == 0..(MaxPages + 1)

\* ------------------------------------------------------------ environment
\* A listing row, by what extraction of it meets: a usable link and detail
\* page, an absent href, or a detail request / extraction that raises.
RowOutcomes == {"ok", "nolink", "detailerr"}

RowSeqs == UNION {[1..n -> RowOutcomes] : n \in 0..MaxRows}

\* What the listing request of a page task produces: a RequestException
\* (network, timeout, raise_for_status), an exception of another class while
\* the listing is parsed, or a document with its news rows.
Responses ==
    {[kind |-> k, rows |-> <<>>] : k \in {"reqerr", "parseerr"}}
        \cup {[kind |-> "doc", rows |-> rs] : rs \in RowSeqs}

\* What the text of the pagination link holds.
Indicators ==
    {[kind |-> k, n |-> 0] : k \in {"absent", "nonint"}}
        \cup {[kind |-> "int", n |-> k] : k \in 0..MaxPages}

\* ------------------------------------------------------- pure functions
Record(r, p, i) == [run |-> r, page |-> p, idx |-> i]

\* extract_news_entry: the entry as a one-element sequence, or <<>> for the
\* None it returns when the href is absent or anything raises.
extract_news_entry(r, p, i, row) ==
    IF row = "nolink" THEN <<>>
    ELSE IF row = "detailerr" THEN <<>>
    ELSE <<Record(r, p, i)>>

RECURSIVE PageEntries(_, _, _, _)
\* The for loop of fetch_page_content over rows i..Len(rows).
PageEntries(r, p, rows, i) ==
    IF i > Len(rows) THEN <<>>
    ELSE LET entry == extract_news_entry(r, p, i, rows[i])
         IN  IF entry # <<>>
             THEN entry \o PageEntries(r, p, rows, i + 1)
             ELSE PageEntries(r, p, rows, i + 1)

Returned(v) == [exc |-> FALSE, val |-> v]
Raised == [exc |-> TRUE, val |-> <<>>]

\* fetch_page_content: the outcome of the page task's future.
fetch_page_content(r, p, resp) ==
    IF resp.kind = "reqerr" THEN Returned(<<>>)
    ELSE IF resp.kind = "parseerr" THEN Raised
    ELSE IF Len(resp.rows) = 0 THEN Returned(<<>>)
    ELSE Returned(PageEntries(r, p, resp.rows, 1))

\* int(total_page or 1): an absent indicator read as a single page.
int_total_page_default(ind) ==
    IF ind.kind = "absent" THEN [exc |-> FALSE, val |-> 1]
    ELSE IF ind.kind = "nonint" THEN [exc |-> TRUE, val |-> 0]
    ELSE [exc |-> FALSE, val |-> ind.n]

\* int(total_page): the page count, or the TypeError / ValueError of int().
int_total_page(ind) ==
    IF ind.kind = "absent" THEN [exc |-> TRUE, val |-> 0]
    ELSE IF ind.kind = "nonint" THEN [exc |-> TRUE, val |-> 0]
    ELSE [exc |-> FALSE, val |-> ind.n]

\* range(1, max_pages) in place of range(1, max_pages + 1).
PageRange_exclusive(n) == 1..(n - 1)

\* range(1, max_pages + 1)
PageRange(n) == 1..n

\* --------------------------------------------------------- safe_translate
\* Characters of a text: two letters and whitespace.
Chars == {"a", "b", " "}

Texts == UNION {[1..n -> Chars] : n \in 0..MaxTextLen}

\* len(text) < 3 of line 48.
MinTextLen == 3

RECURSIVE SplitFrom(_, _, _, _)
\* str.split(): the maximal runs of non-whitespace from position i on, cur
\* being the run read so far.
SplitFrom(t, i, cur, words) ==
    IF i > Len(t)
    THEN IF cur # <<>> THEN Append(words, cur) ELSE words
    ELSE IF t[i] = " "
         THEN SplitFrom(t, i + 1, <<>>, IF cur # <<>> THEN Append(words, cur) ELSE words)
         ELSE SplitFrom(t, i + 1, Append(cur, t[i]), words)

Split(t) == SplitFrom(t, 1, <<>>, <<>>)

RECURSIVE LStrip(_)
LStrip(t) == IF t # <<>> /\ Head(t) = " " THEN LStrip(Tail(t)) ELSE t

RECURSIVE RStrip(_)
RStrip(t) ==
    IF t # <<>> /\ t[Len(t)] = " " THEN RStrip(SubSeq(t, 1, Len(t) - 1)) ELSE t

\* str.strip()
Strip(t) == RStrip(LStrip(t))

RECURSIVE Join(_, _)
\* sep.join(parts)
Join(parts, sep) ==
    IF parts = <<>> THEN <<>>
    ELSE IF Len(parts) = 1 THEN parts[1]
    ELSE parts[1] \o sep \o Join(Tail(parts), sep)

\* The translation service on one character.
TranslatedChar(c) ==
    IF c = "a" THEN "A" ELSE IF c = "b" THEN "B" ELSE IF c = "c" THEN "C" ELSE c

\* translate_text(t)['TranslatedText'] when the call succeeds.
translate_text(t) == [i \in 1..Len(t) |-> TranslatedChar(t[i])]

\* Line 48 with the test len(text) < 2.
TooShort_two(t) == t = <<>> \/ Len(t) < MinTextLen - 1

\* Line 48: not text or len(text) < 3.
TooShort(t) == t = <<>> \/ Len(t) < MinTextLen

RECURSIVE BuildChunks(_, _, _, _, _)
\* Lines 56-67: the chunks built from words[i..], given the chunks closed so
\* far and current_chunk.
BuildChunks(words, i, chunks, current, cs) ==
    IF i > Len(words)
    THEN IF current # <<>> THEN Append(chunks, Strip(current)) ELSE chunks
    ELSE IF Len(current) + Len(words[i]) + 1 > cs
         THEN BuildChunks(words, i + 1, Append(chunks, Strip(current)), words[i], cs)
         ELSE BuildChunks(words, i + 1, chunks,
                          IF current # <<>> THEN current \o <<" ">> \o words[i]
                                            ELSE words[i],
                          cs)

\* Lines 55-67: the chunks of a text longer than chunk_size.
Chunks(t, cs) == BuildChunks(Split(t), 1, <<>>, <<>>, cs)

\* Lines 75-77 with a failed chunk dropped from the result.
ChunkResult_dropped(chunk, failed) ==
    IF failed THEN <<>> ELSE translate_text(chunk)

\* Lines 72-77: what one chunk adds to translated_chunks.
ChunkResult(chunk, failed) ==
    IF failed THEN chunk ELSE translate_text(chunk)

\* Lines 84-86 with '' returned when the call raises.
SingleResult_blank(t, failed) ==
    IF failed THEN <<>> ELSE translate_text(t)

\* Lines 82-86: the single call and its fallback.
SingleResult(t, failed) ==
    IF failed THEN t ELSE translate_text(t)

\* Lines 70-77: translated_chunks, the k-th call of this loop being call
\* number base + k of the service.
TranslatedChunks(chunks, failing, base) ==
    [k \in 1..Len(chunks) |-> ChunkResult(chunks[k], (base + k) \in failing)]

\* safe_translate(text, chunk_size): the returned text and the texts handed
\* to translate_text, base calls having been made before.
safe_translate(t, cs, failing, base) ==
    IF TooShort(t) THEN [out |-> <<>>, calls |-> <<>>]
    ELSE IF Len(t) > cs
         THEN [out |-> Join(TranslatedChunks(Chunks(t, cs), failing, base), <<" ">>),
               calls |-> Chunks(t, cs)]
         ELSE [out |-> SingleResult(t, (base + 1) \in failing),
               calls |-> <<t>>]

\* ------------------------------------------------------------- executor
Queued == {p \in PageNums : status[p] = "queued"}
Running == {p \in PageNums : status[p] = "running"}
Finished == {p \in PageNums : status[p] = "done"}
Submitted == {p \in PageNums : status[p] # "none"}

\* A pool that starts every queued task at once, whatever max_workers is.
WorkerAvailable_unbounded == TRUE

\* ThreadPoolExecutor(max_workers=self.max_workers): a worker is free.
WorkerAvailable == Cardinality(Running) < max_workers

NoStatus == [p \in PageNums |-> "none"]
NoListing == [p \in PageNums |-> [kind |-> "none", rows |-> <<>>]]
NoResult == [p \in PageNums |-> Returned(<<>>)]
Zeros == [p \in PageNums |-> 0]

\* The date text of a detail page: no date element (xpath get() is None), a
\* text that is not of the shape D.M.Y. H:M, or such a text with its numbers.
NoDate == [kind |-> "none", d |-> 0, m |-> 0, y |-> 0, H |-> 0, M |-> 0]
BadDate == [kind |-> "malformed", d |-> 0, m |-> 0, y |-> 0, H |-> 0, M |-> 0]
DateOf(d, m, y, H, M) == [kind |-> "fields", d |-> d, m |-> m, y |-> y, H |-> H, M |-> M]

DateStrs ==
    {NoDate, BadDate,
     DateOf(5, 3, 2021, 14, 30), DateOf(31, 12, 2021, 9, 5),
     DateOf(31, 2, 2021, 14, 30), DateOf(5, 13, 2021, 14, 30),
     DateOf(5, 3, 2021, 24, 30)}

IsLeap(y) == (y % 4 = 0 /\ y % 100 # 0) \/ y % 400 = 0

DaysInMonth(m, y) ==
    IF m = 2 THEN (IF IsLeap(y) THEN 29 ELSE 28)
    ELSE IF m \in {4, 6, 9, 11} THEN 30 ELSE 31

\* datetime.strptime(date_str, "%d.%m.%Y. %H:%M") returns a datetime.
Parses(ds) ==
    /\ ds.kind = "fields"
    /\ ds.m \in 1..12
    /\ ds.y \in 1..9999
    /\ ds.d \in 1..DaysInMonth(ds.m, ds.y)
    /\ ds.H \in 0..23
    /\ ds.M \in 0..59

\* A number written with at least two digits.
Pad2(n) == IF n < 10 THEN "0" \o ToString(n) ELSE ToString(n)

\* A year written with four digits.
Pad4(n) ==
    IF n < 10 THEN "000" \o ToString(n)
    ELSE IF n < 100 THEN "00" \o ToString(n)
    ELSE IF n < 1000 THEN "0" \o ToString(n) ELSE ToString(n)

\* except ValueError in place of except Exception: a None date_str raises.
format_date_valueerror(ds) ==
    IF Parses(ds)
    THEN [exc |-> FALSE,
          date |-> Pad4(ds.y) \o "-" \o Pad2(ds.m) \o "-" \o Pad2(ds.d),
          time |-> Pad2(ds.H) \o ":" \o Pad2(ds.M)]
    ELSE IF ds.kind = "none" THEN [exc |-> TRUE, date |-> "", time |-> ""]
    ELSE [exc |-> FALSE, date |-> "N/A", time |-> "N/A"]

\* format_date(date_str): the pair it returns; it never raises.
format_date(ds) ==
    IF Parses(ds)
    THEN [exc |-> FALSE,
          date |-> Pad4(ds.y) \o "-" \o Pad2(ds.m) \o "-" \o Pad2(ds.d),
          time |-> Pad2(ds.H) \o ":" \o Pad2(ds.M)]
    ELSE [exc |-> FALSE, date |-> "N/A", time |-> "N/A"]

\* Characters of a heading (c^ stands for a letter with a caron) and of the
\* summary and body texts.
HeadingChars == {"c^", " "}
FieldChars == {"a", " "}

HeadingTexts == UNION {[1..n -> HeadingChars] : n \in 0..MaxFieldLen}
FieldTexts == UNION {[1..n -> FieldChars] : n \in 0..MaxFieldLen}

\* unidecode on one character.
AsciiChar(c) == IF c = "c^" THEN "c" ELSE c

\* unidecode(news_heading)
unidecode(t) == [i \in 1..Len(t) |-> AsciiChar(t[i])]

RECURSIVE Collapse(_)
\* re.sub(r'\s+', ' ', t)
Collapse(t) ==
    IF t = <<>> THEN <<>>
    ELSE IF Head(t) = " "
         THEN <<" ">> \o Collapse(LStrip(t))
         ELSE <<Head(t)>> \o Collapse(Tail(t))

\* chunk_size=3000 of line 37, the value extract_news_entry's calls use.
DefaultChunkSize == 3000

\* The three safe_translate calls of lines 175, 177 and 179.
FieldCalls == 3

\* No listing row is being extracted.
NoArticle ==
    [href |-> "none", detail |-> "none", date |-> NoDate,
     heading |-> <<>>, summary |-> <<>>, details |-> <<>>]

\* A listing row with its detail page: the href of the heading link ("none"
\* when absent), whether the detail request succeeds, and the texts found.
Article(href, detail, ds, h, su, de) ==
    [href |-> href, detail |-> detail, date |-> ds,
     heading |-> h, summary |-> su, details |-> de]

\* The rows extraction is applied to. A row without href, or whose detail
\* request fails, has no date and texts read. The date and the texts are read
\* independently of each other: every date goes with every heading and equal
\* summary and body, every triple of texts with a missing date and with a
\* well-formed one.
IsArticle(href, detail, ds, h, su, de) ==
    IF href = "none" THEN detail = "none" /\ ds = NoDate /\ su = <<>> /\ de = <<>>
    ELSE IF detail = "error" THEN ds = NoDate /\ su = <<>> /\ de = <<>>
    ELSE /\ detail = "ok"
         /\ (de = su \/ ds \in {NoDate, DateOf(5, 3, 2021, 14, 30)})

\* Lines 141-184 of extract_news_entry on one row: the returned dict as a
\* one-element sequence (<<>> for None) and the texts handed to
\* translate_text, in order.
news_entry(art, failing) ==
    LET news_heading == unidecode(Strip(art.heading))
        news_summary == Collapse(Strip(art.summary))
        news_details == Collapse(Strip(art.details))
        dt == format_date(art.date)
        th == safe_translate(news_heading, DefaultChunkSize, failing, 0)
        ts == safe_translate(news_summary, DefaultChunkSize, failing, Len(th.calls))
        td == safe_translate(news_details, DefaultChunkSize, failing,
                             Len(th.calls) + Len(ts.calls))
    IN  IF art.href = "none" THEN [out |-> <<>>, calls |-> <<>>]
        ELSE IF art.detail # "ok" THEN [out |-> <<>>, calls |-> <<>>]
        ELSE IF dt.exc THEN [out |-> <<>>, calls |-> <<>>]
        ELSE [out |-> <<[news_public_date |-> dt.date,
                         news_public_time |-> dt.time,
                         news_url |-> <<"base_url", art.href>>,
                         news_heading |-> news_heading,
                         news_heading_translated |-> th.out,
                         news_summary |-> news_summary,
                         news_summary_translated |-> ts.out,
                         news_details |-> news_details,
                         news_details_translated |-> td.out]>>,
              calls |-> th.calls \o ts.calls \o td.calls]

\* ----------------------------------------------------------------- Init
Init ==
    /\ max_workers \in 1..MaxWorkers
    /\ all_entries = <<>>
    /\ mainpc = "start"
    /\ run = 1
    /\ discover = "none"
    /\ max_pages = 0
    /\ nextPage = 1
    /\ status = NoStatus
    /\ listing = NoListing
    /\ result = NoResult
    /\ yielded = {}
    /\ raised = FALSE
    /\ entries0 = <<>>
    /\ submitCount = Zeros
    /\ runCount = Zeros
    /\ saves = 0
    /\ saved = <<>>
    /\ order = <<>>
    /\ tpc = "idle"
    /\ text = <<>>
    /\ chunk_size = 0
    /\ fails = {}
    /\ tout = <<>>
    /\ tcalls = <<>>
    /\ xpc = "idle"
    /\ article = NoArticle
    /\ xout = <<>>

\* -------------------------------------------------------------- actions
\* scrape_all_pages, lines 187-192: request page 1 and read the page count.
\* requests.get raises (neterr), or a response of any status is parsed: there
\* is no raise_for_status here, so only the indicator decides what int() does.
DiscoverTotal ==
    /\ mainpc = "start"
    /\ \E neterr \in BOOLEAN, ind \in Indicators :
         IF neterr
         THEN /\ discover' = "neterr"
              /\ mainpc' = "crashed"
              /\ UNCHANGED <<max_pages, nextPage>>
         ELSE IF int_total_page(ind).exc
         THEN /\ discover' = ind.kind
              /\ mainpc' = "crashed"
              /\ UNCHANGED <<max_pages, nextPage>>
         ELSE /\ discover' = ind.kind
              /\ max_pages' = int_total_page(ind).val
              /\ nextPage' = 1
              /\ mainpc' = IF PageRange(int_total_page(ind).val) = {}
                           THEN "loop" ELSE "fanout"
    /\ UNCHANGED <<max_workers, all_entries, run, status, listing, result,
                   yielded, raised, entries0, submitCount, runCount, saves, saved>>
    /\ UNCHANGED <<order, unitVars>>

\* line 195: one executor.submit of the dict comprehension.
Submit ==
    /\ mainpc = "fanout"
    /\ nextPage \in PageRange(max_pages)
    /\ status' = [status EXCEPT ![nextPage] = "queued"]
    /\ submitCount' = [submitCount EXCEPT ![nextPage] = @ + 1]
    /\ nextPage' = nextPage + 1
    /\ mainpc' = IF (nextPage + 1) \in PageRange(max_pages) THEN "fanout" ELSE "loop"
    /\ UNCHANGED <<max_workers, all_entries, run, discover, max_pages, listing,
                   result, yielded, raised, entries0, runCount, saves, saved>>
    /\ UNCHANGED <<order, unitVars>>

\* A pool worker takes the oldest queued task (pages are queued in rising order).
TaskStart(p) ==
    /\ status[p] = "queued"
    /\ \A q \in Queued : p <= q
    /\ WorkerAvailable
    /\ status' = [status EXCEPT ![p] = "running"]
    /\ UNCHANGED <<max_workers, all_entries, mainpc, run, discover, max_pages,
                   nextPage, listing, result, yielded, raised, entries0,
                   submitCount, runCount, saves, saved>>
    /\ UNCHANGED <<order, unitVars>>

\* fetch_page_content extending self.all_entries itself, from the worker.
TaskFinish_appends(p) ==
    /\ status[p] = "running"
    /\ \E resp \in Responses :
         /\ listing' = [listing EXCEPT ![p] = resp]
         /\ result' = [result EXCEPT ![p] = fetch_page_content(run, p, resp)]
         /\ all_entries' = all_entries \o fetch_page_content(run, p, resp).val
    /\ status' = [status EXCEPT ![p] = "done"]
    /\ runCount' = [runCount EXCEPT ![p] = @ + 1]
    /\ UNCHANGED <<max_workers, mainpc, run, discover, max_pages,
                   nextPage, yielded, raised, entries0, submitCount, saves, saved>>
    /\ UNCHANGED <<order, unitVars>>

\* fetch_page_content(page) runs to its end in the worker.
TaskFinish(p) ==
    /\ status[p] = "running"
    /\ \E resp \in Responses :
         /\ listing' = [listing EXCEPT ![p] = resp]
         /\ result' = [result EXCEPT ![p] = fetch_page_content(run, p, resp)]
    /\ status' = [status EXCEPT ![p] = "done"]
    /\ runCount' = [runCount EXCEPT ![p] = @ + 1]
    /\ UNCHANGED <<max_workers, all_entries, mainpc, run, discover, max_pages,
                   nextPage, yielded, raised, entries0, submitCount, saves, saved>>
    /\ UNCHANGED <<order, unitVars>>

\* The loop with continue in place of break on an empty page result.
Consume_continue(p) ==
    /\ mainpc = "loop"
    /\ status[p] = "done"
    /\ p \notin yielded
    /\ yielded' = yielded \cup {p}
    /\ order' = Append(order, p)
    /\ IF result[p].exc
       THEN /\ raised' = TRUE
            /\ mainpc' = "shutdown"
            /\ UNCHANGED all_entries
       ELSE /\ all_entries' = all_entries \o result[p].val
            /\ UNCHANGED <<mainpc, raised>>
    /\ UNCHANGED <<max_workers, run, discover, max_pages, nextPage, status,
                   listing, result, entries0, submitCount, runCount, saves, saved>>
    /\ UNCHANGED unitVars

\* lines 197-201: one iteration of the as_completed loop.
Consume(p) ==
    /\ mainpc = "loop"
    /\ status[p] = "done"
    /\ p \notin yielded
    /\ yielded' = yielded \cup {p}
    /\ order' = Append(order, p)
    /\ IF result[p].exc
       THEN /\ raised' = TRUE
            /\ mainpc' = "shutdown"
            /\ UNCHANGED all_entries
       ELSE IF result[p].val = <<>>
       THEN /\ mainpc' = "shutdown"
            /\ UNCHANGED <<all_entries, raised>>
       ELSE /\ all_entries' = all_entries \o result[p].val
            /\ UNCHANGED <<mainpc, raised>>
    /\ UNCHANGED <<max_workers, run, discover, max_pages, nextPage, status,
                   listing, result, entries0, submitCount, runCount, saves, saved>>
    /\ UNCHANGED unitVars

\* line 197: as_completed has yielded every future; the loop ends.
LoopExhausted ==
    /\ mainpc = "loop"
    /\ yielded = Submitted
    /\ mainpc' = "shutdown"
    /\ UNCHANGED <<max_workers, all_entries, run, discover, max_pages, nextPage,
                   status, listing, result, yielded, raised, entries0,
                   submitCount, runCount, saves, saved>>
    /\ UNCHANGED <<order, unitVars>>

\* Leaving the with block without waiting for the tasks (shutdown(wait=False)).
Shutdown_nowait ==
    /\ mainpc = "shutdown"
    /\ mainpc' = IF raised THEN "crashed" ELSE "returned"
    /\ UNCHANGED <<max_workers, all_entries, run, discover, max_pages, nextPage,
                   status, listing, result, yielded, raised, entries0,
                   submitCount, runCount, saves, saved>>
    /\ UNCHANGED <<order, unitVars>>

\* Leaving the with block (shutdown(wait=True)), then lines 203-207.
Shutdown ==
    /\ mainpc = "shutdown"
    /\ Queued = {}
    /\ Running = {}
    /\ mainpc' = IF raised THEN "crashed" ELSE "returned"
    /\ UNCHANGED <<max_workers, all_entries, run, discover, max_pages, nextPage,
                   status, listing, result, yielded, raised, entries0,
                   submitCount, runCount, saves, saved>>
    /\ UNCHANGED <<order, unitVars>>

\* main line 225: save_to_excel.
SaveToExcel ==
    /\ mainpc = "returned"
    /\ saved' = all_entries
    /\ saves' = saves + 1
    /\ mainpc' = "done"
    /\ UNCHANGED <<max_workers, all_entries, run, discover, max_pages, nextPage,
                   status, listing, result, yielded, raised, entries0,
                   submitCount, runCount>>
    /\ UNCHANGED <<order, unitVars>>

\* A caller that keeps the scraper object calls scrape_all_pages again.
ScrapeAgain ==
    /\ mainpc = "done"
    /\ run < MaxRuns
    /\ run' = run + 1
    /\ mainpc' = "start"
    /\ discover' = "none"
    /\ max_pages' = 0
    /\ nextPage' = 1
    /\ status' = NoStatus
    /\ listing' = NoListing
    /\ result' = NoResult
    /\ yielded' = {}
    /\ raised' = FALSE
    /\ entries0' = all_entries
    /\ submitCount' = Zeros
    /\ runCount' = Zeros
    /\ saves' = 0
    /\ UNCHANGED <<max_workers, all_entries, saved>>
    /\ order' = <<>>
    /\ UNCHANGED unitVars

Next ==
    \/ DiscoverTotal
    \/ Submit
    \/ \E p \in PageNums : TaskStart(p)
    \/ \E p \in PageNums : TaskFinish(p)
    \/ \E p \in PageNums : Consume(p)
    \/ LoopExhausted
    \/ Shutdown
    \/ SaveToExcel

\* main(): one scraper, one scrape_all_pages, one save_to_excel.
Spec == Init /\ [][Next]_vars

NextReuse == Next \/ ScrapeAgain

\* The scraper object used for up to MaxRuns calls.
SpecReuse == Init /\ [][NextReuse]_vars

\* One call safe_translate(text, chunk_size) on the scraper.
SafeTranslate ==
    /\ tpc = "ready"
    /\ tpc' = "done"
    /\ tout' = safe_translate(text, chunk_size, fails, 0).out
    /\ tcalls' = safe_translate(text, chunk_size, fails, 0).calls
    /\ UNCHANGED <<max_workers, all_entries, mainpc, run, discover, max_pages,
                   nextPage, status, listing, result, yielded, raised, entries0,
                   submitCount, runCount, saves, saved, order>>
    /\ UNCHANGED <<text, chunk_size, fails, xpc, article, xout>>

\* A constructed scraper about to run safe_translate on some text.
InitTranslate ==
    /\ max_workers \in 1..MaxWorkers
    /\ all_entries = <<>>
    /\ mainpc = "start"
    /\ run = 1
    /\ discover = "none"
    /\ max_pages = 0
    /\ nextPage = 1
    /\ status = NoStatus
    /\ listing = NoListing
    /\ result = NoResult
    /\ yielded = {}
    /\ raised = FALSE
    /\ entries0 = <<>>
    /\ submitCount = Zeros
    /\ runCount = Zeros
    /\ saves = 0
    /\ saved = <<>>
    /\ order = <<>>
    /\ tpc = "ready"
    /\ text \in Texts
    /\ chunk_size \in 1..MaxChunk
    /\ fails \in SUBSET (1..MaxFailing)
    /\ tout = <<>>
    /\ tcalls = <<>>
    /\ xpc = "idle"
    /\ article = NoArticle
    /\ xout = <<>>

NextTranslate == SafeTranslate

\* safe_translate applied to every bounded text, chunk_size and failure set.
SpecTranslate == InitTranslate /\ [][NextTranslate]_vars

\* One call extract_news_entry(row) on the scraper.
ExtractNewsEntry ==
    /\ xpc = "ready"
    /\ xpc' = "done"
    /\ \E href \in {"none", "/vijest"}, detail \in {"none", "error", "ok"},
          ds \in DateStrs, h \in HeadingTexts, su \in FieldTexts,
          de \in FieldTexts, failing \in SUBSET (1..FieldCalls) :
         /\ IsArticle(href, detail, ds, h, su, de)
         /\ article' = Article(href, detail, ds, h, su, de)
         /\ fails' = failing
         /\ xout' = news_entry(article', failing).out
         /\ tcalls' = news_entry(article', failing).calls
    /\ chunk_size' = DefaultChunkSize
    /\ UNCHANGED <<max_workers, all_entries, mainpc, run, discover, max_pages,
                   nextPage, status, listing, result, yielded, raised, entries0,
                   submitCount, runCount, saves, saved, order>>
    /\ UNCHANGED <<tpc, text, tout>>

\* A constructed scraper about to run extract_news_entry on some row.
InitExtract ==
    /\ max_workers = MaxWorkers
    /\ all_entries = <<>>
    /\ mainpc = "start"
    /\ run = 1
    /\ discover = "none"
    /\ max_pages = 0
    /\ nextPage = 1
    /\ status = NoStatus
    /\ listing = NoListing
    /\ result = NoResult
    /\ yielded = {}
    /\ raised = FALSE
    /\ entries0 = <<>>
    /\ submitCount = Zeros
    /\ runCount = Zeros
    /\ saves = 0
    /\ saved = <<>>
    /\ order = <<>>
    /\ tpc = "idle"
    /\ text = <<>>
    /\ chunk_size = 0
    /\ fails = {}
    /\ tout = <<>>
    /\ tcalls = <<>>
    /\ xpc = "ready"
    /\ article = NoArticle
    /\ xout = <<>>

NextExtract == ExtractNewsEntry

\* extract_news_entry applied to every bounded row and detail page.
SpecExtract == InitExtract /\ [][NextExtract]_vars

\* ------------------------------------------------------------ properties
Range(s) == {s[i] : i \in 1..Len(s)}

\* scrape_all_pages has returned normally.
Ended == mainpc \in {"returned", "done"}

\* The first archive page gave no page count: the request raised, or the
\* indicator is absent or not an integer.
SetupFailed == discover \in {"neterr", "absent", "nonint"}

\* The page is a fetched document without listing rows.
IsEmptyPage(p) == listing[p].kind = "doc" /\ listing[p].rows = <<>>

\* The listing request of the page raised a RequestException.
IsFetchError(p) == listing[p].kind = "reqerr"

\* The task of the page returned a non-empty list.
NonEmptyResult(p) == status[p] = "done" /\ ~result[p].exc /\ result[p].val # <<>>

\* Every Record of the page's result is in the aggregate.
Incorporated(p) == Range(result[p].val) \subseteq Range(all_entries)

\* Every page is a document whose rows all extract (the stub fetcher).
AllStubbed ==
    \A p \in 1..max_pages :
        /\ listing[p].kind = "doc"
        /\ \A i \in 1..Len(listing[p].rows) : listing[p].rows[i] = "ok"

RECURSIVE SumRows(_)
\* Sum of the article counts of pages 1..n.
SumRows(n) == IF n <= 0 THEN 0 ELSE Len(listing[n].rows) + SumRows(n - 1)

\* C1: a run started with an empty aggregate against deterministic pages
\* returns as many Records as the article counts of pages 1..N add up to,
\* whatever the completion order.
C1_CountEqualsSum ==
    (Ended /\ entries0 = <<>> /\ max_pages >= 1 /\ AllStubbed)
        => Len(all_entries) = SumRows(max_pages)

\* C2: when a page task yields an empty result, every sibling task that
\* finishes with a non-empty result still has its Records in the aggregate
\* the run returns.
C2_SiblingsIncorporated ==
    Ended =>
        \A p \in 1..max_pages :
            (~result[p].exc /\ result[p].val = <<>>) =>
                \A q \in (1..max_pages) \ {p} :
                    NonEmptyResult(q) => Incorporated(q)

\* C3: a page whose listing fetch fails contributes no Record and the run
\* continues: every other page with a non-empty result is in the final
\* aggregate.
C3_FetchErrorIsolated ==
    Ended =>
        \A p \in 1..max_pages :
            IsFetchError(p) =>
                /\ result[p] = Returned(<<>>)
                /\ \A q \in (1..max_pages) \ {p} :
                       NonEmptyResult(q) => Incorporated(q)

\* C4: the result of a task whose page has no listing rows differs from
\* the result of a task whose listing fetch failed.
C4_EmptyDistinctFromFetchError ==
    \A p, q \in Finished :
        (IsEmptyPage(p) /\ IsFetchError(q)) => result[p] # result[q]

\* C5: at most max_workers page tasks are started and not yet finished.
C5_AtMostKInFlight == Cardinality(Running) <= max_workers

\* C5 witness: every worker is busy while a submitted task still waits.
C5_PoolSaturated == Cardinality(Running) = max_workers /\ Queued # {}

\* The submit loop of the current call is over.
FanOutOver ==
    \/ mainpc \in {"loop", "shutdown", "returned", "done"}
    \/ mainpc = "crashed" /\ ~SetupFailed

\* C6: once FanOut is over exactly the pages 1..max have one submitted task
\* each and no other number has one; no page is ever submitted or run twice.
C6_OneTaskPerPage ==
    /\ \A p \in PageNums :
           submitCount[p] <= 1 /\ runCount[p] <= submitCount[p]
    /\ FanOutOver =>
           \A p \in PageNums :
               submitCount[p] = IF 1 <= p /\ p <= max_pages THEN 1 ELSE 0

\* C6 witness: a run over two or more pages ended after a listing fetch
\* failed on one page and an article was skipped on another.
C6_FailedTaskRunOnce ==
    /\ mainpc = "done"
    /\ max_pages >= 2
    /\ \E p, q \in 1..max_pages :
           /\ p # q
           /\ IsFetchError(p) /\ runCount[p] = 1
           /\ listing[q].kind = "doc" /\ "detailerr" \in Range(listing[q].rows)
           /\ runCount[q] = 1

\* C7: when the first archive page cannot be fetched or gives no integer
\* page count the run aborts: no task is submitted, the aggregate is as it
\* was and save_to_excel is not invoked.
C7_SetupFailureAborts ==
    SetupFailed =>
        /\ mainpc = "crashed"
        /\ Submitted = {}
        /\ submitCount = Zeros
        /\ all_entries = entries0
        /\ saves = 0

\* C7 witness: the run stopped in DiscoverTotal on an absent indicator.
C7_AbortedOnAbsentIndicator == discover = "absent" /\ mainpc = "crashed"

\* C8: when DiscoverTotal succeeded the run ends in Done with the output
\* written once, whatever failed inside the page tasks.
C8_RunCompletes ==
    (discover = "int" /\ mainpc \in {"done", "crashed"})
        => (mainpc = "done" /\ saves = 1)

\* Indices of the rows of a listing that extract, in listing order.
OkRows(rows) == SelectSeq([i \in 1..Len(rows) |-> i], LAMBDA i : rows[i] = "ok")

\* One Record for each extracting row of page p, in listing order.
ExpectedEntries(r, p, rows) ==
    [k \in 1..Len(OkRows(rows)) |-> Record(r, p, OkRows(rows)[k])]

\* The page has a row that is skipped.
HasSkippedRow(p) ==
    listing[p].kind = "doc"
        /\ \E i \in 1..Len(listing[p].rows) : listing[p].rows[i] # "ok"

\* C9: on pages that all have listing rows, a skipped article removes only
\* its own Record: the page result is one Record per other extracting row,
\* in order, and those Records and the Records of every other page reach
\* the aggregate, also when the page has a single row.
C9_SkipIsolated ==
    (Ended /\ entries0 = <<>>
           /\ \A p \in 1..max_pages :
                  listing[p].kind = "doc" /\ listing[p].rows # <<>>)
        => \A p \in 1..max_pages :
               HasSkippedRow(p) =>
                   /\ result[p] = Returned(ExpectedEntries(run, p, listing[p].rows))
                   /\ \A q \in 1..max_pages :
                          Range(ExpectedEntries(run, q, listing[q].rows))
                              \subseteq Range(all_entries)

\* C10: the aggregate a second scrape_all_pages returns, and the rows
\* save_to_excel then writes, hold no Record of an earlier run.
C10_NoRecordRetained ==
    /\ (Ended /\ run > 1) =>
           \A i \in 1..Len(all_entries) : all_entries[i].run = run
    /\ (mainpc = "done" /\ run > 1) =>
           \A i \in 1..Len(saved) : saved[i].run = run

RECURSIVE WordsOf(_)
\* The words of a sequence of chunks, in order.
WordsOf(chunks) ==
    IF chunks = <<>> THEN <<>> ELSE Split(Head(chunks)) \o WordsOf(Tail(chunks))

\* safe_translate returned after taking the chunking branch of line 53.
ChunkedCall == tpc = "done" /\ ~TooShort(text) /\ Len(text) > chunk_size

\* C11: the chunks built for a text longer than chunk_size are each at most
\* chunk_size long, each a non-empty run of whole words, and together hold
\* the words of the text in order.
C11_ChunksWithinLimit ==
    ChunkedCall =>
        /\ \A k \in 1..Len(tcalls) :
               /\ Len(tcalls[k]) <= chunk_size
               /\ tcalls[k] # <<>>
               /\ tcalls[k] = Join(Split(tcalls[k]), <<" ">>)
        /\ WordsOf(tcalls) = Split(text)

\* The result of chunk k as the claim gives it.
ExpectedChunkResult(k) ==
    IF k \in fails THEN Chunks(text, chunk_size)[k]
    ELSE [i \in 1..Len(Chunks(text, chunk_size)[k]) |->
              TranslatedChar(Chunks(text, chunk_size)[k][i])]

\* C12: a chunked call hands each chunk to translate_text once, in chunk
\* order, and returns the single-space join of the per-chunk results: the
\* translation where the call succeeded, the chunk itself where it failed;
\* a failure never turns the result into the untranslated text.
C12_PerChunkFallback ==
    ChunkedCall =>
        /\ tcalls = Chunks(text, chunk_size)
        /\ tout = Join([k \in 1..Len(tcalls) |-> ExpectedChunkResult(k)], <<" ">>)
        /\ (\E k \in 1..Len(tcalls) :
                k \notin fails /\ translate_text(tcalls[k]) # tcalls[k])
               => tout # text

\* C12 witness: a call of two or more chunks in which one chunk's call
\* failed and another chunk's call succeeded.
C12_MixedChunks ==
    /\ ChunkedCall
    /\ Len(tcalls) >= 2
    /\ \E j, k \in 1..Len(tcalls) :
           j \in fails /\ k \notin fails /\ tcalls[j] # <<>> /\ tcalls[k] # <<>>

\* C15: for an empty text or one shorter than 3 characters safe_translate
\* returns the empty string and calls the translation service zero times.
C15_ShortTextNoCall ==
    (tpc = "done" /\ Len(text) < 3) => (tout = <<>> /\ tcalls = <<>>)

\* C15 witness: safe_translate returned for a text of two characters.
C15_TwoCharText == tpc = "done" /\ Len(text) = 2 /\ text # <<" ", " ">>

\* extract_news_entry returned for a row whose link and detail page were
\* usable, so that the date and the three texts were read.
DetailRead == xpc = "done" /\ article.href # "none" /\ article.detail = "ok"

CalledFields ==
    SelectSeq(<<"news_heading", "news_summary", "news_details">>,
              LAMBDA f : Len(xout[1][f]) >= 3)

\* The translated companion of a field.
TranslatedField(f) ==
    IF f = "news_heading" THEN "news_heading_translated"
    ELSE IF f = "news_summary" THEN "news_summary_translated"
    ELSE "news_details_translated"

\* C14: for each of heading, summary and body, translated by its own call:
\* when that call fails the translated field is the original text, when it
\* succeeds it is the translation, whatever the other two calls did; the
\* Record is emitted with all nine fields.
C14_FieldFallback ==
    DetailRead =>
        /\ xout # <<>>
        /\ DOMAIN xout[1] =
               {"news_public_date", "news_public_time", "news_url",
                "news_heading", "news_heading_translated",
                "news_summary", "news_summary_translated",
                "news_details", "news_details_translated"}
        /\ Len(tcalls) = Len(CalledFields)
        /\ \A k \in 1..Len(CalledFields) :
               /\ tcalls[k] = xout[1][CalledFields[k]]
               /\ xout[1][TranslatedField(CalledFields[k])] =
                      IF k \in fails
                      THEN xout[1][CalledFields[k]]
                      ELSE [i \in 1..Len(tcalls[k]) |-> TranslatedChar(tcalls[k][i])]

\* C14 witness: a Record whose three fields each had a call, the call of
\* the summary failing and the other two succeeding.
C14_OneFieldFailed ==
    /\ DetailRead
    /\ xout # <<>>
    /\ Len(tcalls) = 3
    /\ fails = {2}
    /\ xout[1].news_summary_translated = xout[1].news_summary
    /\ xout[1].news_heading_translated # xout[1].news_heading

\* The page's future stops the loop: an empty list or an exception.
StopsLoop(p) == result[p].exc \/ result[p].val = <<>>

RECURSIVE BeforeFirstStop(_)
\* The pages of a consumption order that come before the first one whose
\* result stops the loop.
BeforeFirstStop(ps) ==
    IF ps = <<>> THEN <<>>
    ELSE IF StopsLoop(Head(ps)) THEN <<>>
    ELSE <<Head(ps)>> \o BeforeFirstStop(Tail(ps))

RECURSIVE ConcatResults(_)
\* The page results of the given pages, whole, one after the other.
ConcatResults(ps) ==
    IF ps = <<>> THEN <<>>
    ELSE result[Head(ps)].val \o ConcatResults(Tail(ps))

\* C16: in a run started with an empty aggregate the aggregate is always
\* the concatenation, in the order the driver consumed them, of the whole
\* results of the pages consumed before the first empty result; no page is
\* consumed twice and none is consumed after the first empty result.
C16_AggregateIsConsumedPrefix ==
    entries0 = <<>> =>
        /\ all_entries = ConcatResults(BeforeFirstStop(order))
        /\ \A i, j \in 1..Len(order) : order[i] = order[j] => i = j
        /\ \A i \in 1..Len(order) : StopsLoop(order[i]) => i = Len(order)

\* C16 witness: a higher page was consumed first and is in the aggregate, a
\* lower page then gave the empty result, and the call has returned.
C16_OutOfPageOrder ==
    /\ Ended
    /\ Len(order) = 2
    /\ order[1] > order[2]
    /\ ~StopsLoop(order[1])
    /\ StopsLoop(order[2])
    /\ all_entries = result[order[1]].val

\* C17: every change of the aggregate is one step of the driver's loop
\* appending one consumed page result; no step of a page task in a worker
\* changes it.
C17_OnlyDriverWrites ==
    [][all_entries' # all_entries =>
          /\ mainpc = "loop"
          /\ status' = status
          /\ result' = result
          /\ runCount' = runCount
          /\ \E p \in PageNums :
                 /\ p \notin yielded
                 /\ yielded' = yielded \cup {p}
                 /\ all_entries' = all_entries \o result[p].val]_vars

\* C17 witness: the aggregate has been written while a page task is still
\* running in a worker.
C17_WriteWhileTaskRuns == all_entries # <<>> /\ Running # {}

\* C18: when scrape_all_pages has returned normally every submitted page
\* task has run and finished, none is queued or running, also when the loop
\* stopped early on an empty result.
C18_AllTasksFinishedAtReturn ==
    Ended =>
        /\ Queued = {}
        /\ Running = {}
        /\ \A p \in 1..max_pages : status[p] = "done" /\ runCount[p] = 1

\* C18 witness: the call returned after the loop stopped on an empty result
\* with a finished future it never consumed.
C18_ReturnedAfterEarlyStop ==
    /\ Ended
    /\ \E p \in yielded : ~result[p].exc /\ result[p].val = <<>>
    /\ \E q \in Finished : q \notin yielded

TypeOK ==
    /\ max_workers \in 1..MaxWorkers
    /\ mainpc \in {"start", "fanout", "loop", "shutdown", "returned", "done", "crashed"}
    /\ run \in 1..MaxRuns
    /\ yielded \subseteq PageNums
    /\ raised \in BOOLEAN
====
